---- MODULE Spec2Model ----
(***************************************************************************)
(* Model of the ulvestein ray caster: Map::get, ray_cast (the DDA loop and *)
(* its reflection recursion), CastPoints::clip, Map::move_ray_cast,        *)
(* Map::render_ray_cast and the movement part of World::update.            *)
(*                                                                         *)
(* f32 values are modelled as exact rationals <<n, d>> (d > 0, lowest      *)
(* terms) extended with +inf = <<1,0>>, -inf = <<-1,0>> and NaN = <<0,0>>, *)
(* so that division by zero and NaN comparisons behave as in IEEE 754.     *)
(* -0.0 is <<0,-1>>.  Rounding is not modelled.                            *)
(***************************************************************************)
EXTENDS Integers, Sequences, FiniteSets, TLC

\* ------------------------------------------------------------------------
\* f32 arithmetic (exact, extended with infinities and NaN)
\* ------------------------------------------------------------------------

Abs(i) == IF i < 0 THEN -i ELSE i

Sgn(i) == IF i < 0 THEN -1 ELSE IF i > 0 THEN 1 ELSE 0

RECURSIVE GCD(_, _)
GCD(a, b) == IF b = 0 THEN a ELSE GCD(b, a % b)

\* the float n/d for d >= 0; d = 0 gives an infinity or NaN, n = 0 gives +0.0
Q(n, d) ==
    IF d = 0 THEN <<Sgn(n), 0>>
    ELSE LET g == GCD(Abs(n), d) IN <<n \div g, d \div g>>

I(n) == <<n, 1>>

NaN == <<0, 0>>
PInf == <<1, 0>>
NInf == <<-1, 0>>
Zero == <<0, 1>>
\* -0.0 is the zero with a negative denominator
NegZero == <<0, -1>>

IsNaN(a) == a = NaN
IsFinite(a) == a[2] # 0
IsZero(a) == a = Zero \/ a = NegZero

\* f32::is_sign_negative / is_sign_positive (the sign bit; NaN counts as positive)
IsSignNegative(a) == a[1] < 0 \/ a = NegZero
IsSignPositive(a) == ~IsSignNegative(a)

\* gives a zero result the sign IEEE 754 gives it
WithZeroSign(r, negative) == IF r = Zero /\ negative THEN NegZero ELSE r

QNeg(a) ==
    IF a = Zero THEN NegZero
    ELSE IF a = NegZero THEN Zero
    ELSE <<-a[1], a[2]>>

QAbs(a) == <<Abs(a[1]), Abs(a[2])>>

QAdd(a, b) ==
    IF a[2] = 0 /\ b[2] = 0 THEN (IF a = b THEN a ELSE NaN)
    ELSE WithZeroSign(Q(a[1] * Abs(b[2]) + b[1] * Abs(a[2]), Abs(a[2]) * Abs(b[2])),
                      a = NegZero /\ b = NegZero)

QSub(a, b) == QAdd(a, QNeg(b))

QMul(a, b) ==
    WithZeroSign(Q(a[1] * b[1], Abs(a[2]) * Abs(b[2])),
                 IsSignNegative(a) # IsSignNegative(b))

QDiv(a, b) ==
    WithZeroSign(Q(a[1] * Abs(b[2]) * (IF IsSignNegative(b) THEN -1 ELSE 1),
                   Abs(a[2]) * Abs(b[1])),
                 IsSignNegative(a) # IsSignNegative(b))

\* a < b; false when either side is NaN
QLt(a, b) ==
    IF IsNaN(a) \/ IsNaN(b) THEN FALSE
    ELSE IF a[2] = 0 /\ b[2] = 0 THEN a[1] < b[1]
    ELSE a[1] * Abs(b[2]) < b[1] * Abs(a[2])

\* a >= b; false when either side is NaN
QGe(a, b) ==
    IF IsNaN(a) \/ IsNaN(b) THEN FALSE
    ELSE ~QLt(a, b)

\* f32::floor() as i32: NaN converts to 0, infinities saturate
I32Max == 2147483647

FloorI32(a) ==
    IF IsNaN(a) THEN 0
    ELSE IF a[2] = 0 THEN (IF a[1] > 0 THEN I32Max ELSE -I32Max - 1)
    ELSE a[1] \div Abs(a[2])

\* f32::fract() == 0.
FractIsZero(a) == Abs(a[2]) = 1

\* ------------------------------------------------------------------------
\* vec.rs
\* ------------------------------------------------------------------------

VAdd(p, v) == <<QAdd(p[1], v[1]), QAdd(p[2], v[2])>>

VSub(p, q) == <<QSub(p[1], q[1]), QSub(p[2], q[2])>>

VScale(s, v) == <<QMul(v[1], s), QMul(v[2], s)>>

Dot(u, v) == QAdd(QMul(u[1], v[1]), QMul(u[2], v[2]))

\* Vector2::norm is hypot(x, y), in general irrational: only its class is
\* modelled (zero, positive, NaN), which is all ray_cast depends on
NormClass(v) ==
    IF IsNaN(v[1]) \/ IsNaN(v[2]) THEN "nan"
    ELSE IF IsZero(v[1]) /\ IsZero(v[2]) THEN "zero"
    ELSE "pos"

\* Vector2::proj
Proj(v, other) ==
    LET divisor == QDiv(I(1), Dot(other, other))
    IN IF IsFinite(divisor) THEN VScale(divisor, VScale(Dot(v, other), other))
       ELSE <<Zero, Zero>>

\* ------------------------------------------------------------------------
\* map.rs: Map, Properties, Map::get, Map::props
\* ------------------------------------------------------------------------

\* Option<T>: None is <<>>, Some(v) is <<v>>
None == <<>>
Some(v) == <<v>>

\* Mat: 0 is air, m >= 1 has the properties entry m (Mat::is_air and
\* Mat::index are not part of map/mat.rs; id 0 is air after the specification)
Air == 0
IsAir(mat) == mat = Air

\* A usize is kept as hi * 2^64 + lo with a small lo, so that the casts of
\* negative i32 values and the checked arithmetic are exact 64-bit
AsUsize(i) == IF i < 0 THEN [hi |-> 1, lo |-> i] ELSE [hi |-> 0, lo |-> i]

FitsUsize(v) == (v.hi = 0 /\ v.lo >= 0) \/ (v.hi = 1 /\ v.lo < 0)

CheckedMul(a, b) ==
    IF a.hi * b.hi # 0 THEN None
    ELSE LET r == [hi |-> a.hi * b.lo + a.lo * b.hi, lo |-> a.lo * b.lo]
         IN IF FitsUsize(r) THEN Some(r) ELSE None

CheckedAdd(a, b) ==
    LET r == [hi |-> a.hi + b.hi, lo |-> a.lo + b.lo]
    IN IF FitsUsize(r) THEN Some(r) ELSE None

\* slice::get
SliceGet(grid, index) ==
    IF index.hi = 0 /\ index.lo < Len(grid) THEN Some(grid[index.lo + 1]) ELSE None

\* Map::get
Get(m, x, y) ==
    LET ux == AsUsize(x)
        uy == AsUsize(y)
        w == AsUsize(m.width)
        prod == CheckedMul(uy, w)
    IN IF prod = None THEN None
       ELSE LET index == CheckedAdd(prod[1], ux)
            IN IF index = None THEN None
               ELSE SliceGet(m.grid, index[1])

AirProps == [solid |-> FALSE, transparent |-> TRUE, reflective |-> FALSE, door |-> FALSE]

\* Map::props
Props(m, mat) == IF IsAir(mat) THEN AirProps ELSE m.properties[mat]

\* number of rows of a rectangular map
Height(m) == IF m.width = 0 THEN 0 ELSE Len(m.grid) \div m.width

\* ------------------------------------------------------------------------
\* map/ray_caster.rs: Side, Direction, CastPoint
\* ------------------------------------------------------------------------

Sides == {"Right", "Down", "Left", "Up"}

\* the sides of a vertical grid line exchanged
along_x_swapped(x_positive) == IF x_positive THEN "Right" ELSE "Left"

along_x(x_positive) == IF x_positive THEN "Left" ELSE "Right"

along_y(y_positive) == IF y_positive THEN "Up" ELSE "Down"

from_vec(dist) ==
    IF QLt(QAbs(dist[2]), QAbs(dist[1])) THEN along_x(IsSignPositive(dist[1]))
    ELSE along_y(IsSignPositive(dist[2]))

flip(side) ==
    CASE side = "Right" -> "Left"
      [] side = "Down" -> "Up"
      [] side = "Left" -> "Right"
      [] side = "Up" -> "Down"

into_unit_vector(side) ==
    CASE side = "Right" -> <<I(1), I(0)>>
      [] side = "Down" -> <<I(0), I(1)>>
      [] side = "Left" -> <<I(-1), I(0)>>
      [] side = "Up" -> <<I(0), I(-1)>>

\* Direction::new
DirectionNew(n) == IF IsSignNegative(n) THEN "Neg" ELSE "Pos"

\* a step that leaves the cell index where it is
on_i32_stay(dir, n) == n

\* Direction::on_i32
on_i32(dir, n) == IF dir = "Pos" THEN n + 1 ELSE n - 1

\* Direction::on
on(dir, n) == IF dir = "Pos" THEN n + 1 ELSE n

terminated(point, mat, side) ==
    [point |-> point, cast_type |-> [tag |-> "Termination", mat |-> mat, side |-> side]]

dest_point(point) == [point |-> point, cast_type |-> [tag |-> "Destination"]]

void(point, side) == [point |-> point, cast_type |-> [tag |-> "Void", side |-> side]]

reflect(point, mat, side) ==
    [point |-> point, cast_type |-> [tag |-> "Reflection", mat |-> mat, side |-> side]]

pass(point, mat, side) ==
    [point |-> point, cast_type |-> [tag |-> "Pass", mat |-> mat, side |-> side]]

Tag(cp) == cp.cast_type.tag

\* ------------------------------------------------------------------------
\* The material predicates the two callers of ray_cast pass in
\* ------------------------------------------------------------------------

\* closures of Map::move_ray_cast
\* every material taken for a node
MoveIsNodeAlways(m, mat) == TRUE

MoveIsNode(m, mat) == Props(m, mat).solid
MoveIsTerminator(m, mat) == Props(m, mat).solid
MoveIsReflector(m, mat) == FALSE
MoveIsPass(m, mat) == ~Props(m, mat).solid

\* closures of Map::render_ray_cast
RenderIsNode(m, mat) == Props(m, mat).solid \/ ~Props(m, mat).transparent
RenderIsTerminator(m, mat) == ~Props(m, mat).transparent
RenderIsReflector(m, mat) == Props(m, mat).reflective
RenderIsPass(m, mat) == Props(m, mat).transparent

IsNode(preds, m, mat) == IF preds = "move" THEN MoveIsNode(m, mat) ELSE RenderIsNode(m, mat)
IsTerminator(preds, m, mat) ==
    IF preds = "move" THEN MoveIsTerminator(m, mat) ELSE RenderIsTerminator(m, mat)
IsReflector(preds, m, mat) ==
    IF preds = "move" THEN MoveIsReflector(m, mat) ELSE RenderIsReflector(m, mat)
IsPass(preds, m, mat) == IF preds = "move" THEN MoveIsPass(m, mat) ELSE RenderIsPass(m, mat)

\* ------------------------------------------------------------------------
\* ray_cast: one activation record per (recursive) call
\* ------------------------------------------------------------------------

\* the locals of a call that starts in the cell of floor(from) whatever the
\* direction is
NewFrameUnadjusted(from, dist, finite, node_limit, preds, skip_first_check) ==
    [from |-> from, dist |-> dist, dest |-> VAdd(from, dist),
     finite |-> finite, node_limit |-> node_limit, preds |-> preds,
     cur |-> from,
     gx |-> FloorI32(from[1]),
     gy |-> FloorI32(from[2]),
     x_dir |-> DirectionNew(dist[1]), y_dir |-> DirectionNew(dist[2]),
     points |-> <<>>,
     side |-> from_vec(dist),
     do_mat_check |-> ~skip_first_check,
     pc |-> "loop"]

\* ray_cast up to the loop: lines 6-26
NewFrame(from, dist, finite, node_limit, preds, skip_first_check) ==
    LET x_dir == DirectionNew(dist[1])
        y_dir == DirectionNew(dist[2])
        gx0 == FloorI32(from[1])
        gy0 == FloorI32(from[2])
    IN [from |-> from, dist |-> dist, dest |-> VAdd(from, dist),
        finite |-> finite, node_limit |-> node_limit, preds |-> preds,
        cur |-> from,
        gx |-> IF FractIsZero(from[1]) /\ x_dir = "Neg" THEN gx0 - 1 ELSE gx0,
        gy |-> IF FractIsZero(from[2]) /\ y_dir = "Neg" THEN gy0 - 1 ELSE gy0,
        x_dir |-> x_dir, y_dir |-> y_dir,
        points |-> <<>>,
        side |-> from_vec(dist),
        do_mat_check |-> ~skip_first_check,
        pc |-> "loop"]

\* (cur - dest).dot(dist) / dist.norm() >= 0.
PastDest(f) ==
    /\ NormClass(f.dist) = "pos"
    /\ QGe(Dot(VSub(f.cur, f.dest), f.dist), Zero)

\* cur.x < 0. || cur.y < 0.
CurNegative(f) == QLt(f.cur[1], Zero) \/ QLt(f.cur[2], Zero)

\* lines 75-95: advance to the nearest grid line
Advance(f) ==
    LET nearest_corner == <<I(on(f.x_dir, f.gx)), I(on(f.y_dir, f.gy))>>
        distance == VSub(nearest_corner, f.cur)
        time0 == QDiv(distance[1], f.dist[1])
        time1 == QDiv(distance[2], f.dist[2])
    IN IF QLt(time0, time1)
       THEN [f EXCEPT !.side = along_x(IsSignPositive(f.dist[1])),
                      !.cur = <<nearest_corner[1], QAdd(f.cur[2], QMul(time0, f.dist[2]))>>,
                      !.gx = on_i32(f.x_dir, f.gx),
                      !.do_mat_check = TRUE]
       ELSE [f EXCEPT !.side = along_y(IsSignPositive(f.dist[2])),
                      !.cur = <<QAdd(f.cur[1], QMul(time1, f.dist[1])), nearest_corner[2]>>,
                      !.gy = on_i32(f.y_dir, f.gy),
                      !.do_mat_check = TRUE]

Push(f, cp) == [f EXCEPT !.points = Append(f.points, cp)]

Break(f) == [f EXCEPT !.pc = "post"]

\* which arm of the loop body (lines 29-72) the iteration takes
Outcome(m, f) ==
    IF Len(f.points) >= f.node_limit THEN "limit"
    ELSE IF f.finite /\ PastDest(f) THEN "dest"
    ELSE IF ~f.do_mat_check THEN "step"
    ELSE IF CurNegative(f) THEN "void"
    ELSE LET mat == Get(m, f.gx, f.gy)
         IN IF mat = None THEN "void"
            ELSE IF ~IsNode(f.preds, m, mat[1]) THEN "step"
            ELSE IF IsTerminator(f.preds, m, mat[1]) THEN "terminate"
            ELSE IF IsReflector(f.preds, m, mat[1]) THEN "reflect"
            ELSE IF IsPass(f.preds, m, mat[1]) THEN "pass"
            ELSE "step"

\* a reflection that negates the component along the face instead
MirroredAlongFace(f) ==
    LET dist == IF f.finite THEN VSub(f.dest, f.cur) ELSE f.dist
    IN IF f.side \in {"Left", "Right"} THEN <<dist[1], QNeg(dist[2])>>
       ELSE <<QNeg(dist[1]), dist[2]>>

\* lines 54-58: the direction of the reflected ray
Mirrored(f) ==
    LET dist == IF f.finite THEN VSub(f.dest, f.cur) ELSE f.dist
    IN IF f.side \in {"Left", "Right"} THEN <<QNeg(dist[1]), dist[2]>>
       ELSE <<dist[1], QNeg(dist[2])>>

\* the value returned with a Destination after a last Void whether the cast
\* is finite or not
CastPointsOfAnchored(f) ==
    LET last_is_void == Len(f.points) > 0 /\ Tag(f.points[Len(f.points)]) = "Void"
    IN [origin |-> f.from,
        target |-> IF f.finite THEN Some(f.dest) ELSE None,
        inner |-> IF last_is_void THEN Append(f.points, dest_point(f.dest)) ELSE f.points]

\* the value returned without the Destination that follows a last Void
CastPointsOfBare(f) ==
    [origin |-> f.from, target |-> IF f.finite THEN Some(f.dest) ELSE None, inner |-> f.points]

\* lines 98-113: the value ray_cast returns
CastPointsOf(f) ==
    LET last_is_void == Len(f.points) > 0 /\ Tag(f.points[Len(f.points)]) = "Void"
    IN [origin |-> f.from,
        target |-> IF f.finite THEN Some(f.dest) ELSE None,
        inner |-> IF f.finite /\ last_is_void
                  THEN Append(f.points, dest_point(f.dest)) ELSE f.points]

Top(st) == st[Len(st)]

SetTop(st, f) == [st EXCEPT ![Len(st)] = f]

\* the loop iteration of the running call, by arm
DoLimit(st) == SetTop(st, Break(Top(st)))

\* reaching the destination without recording it
DoDestUnrecorded(st) == SetTop(st, Break(Top(st)))

DoDest(st) == LET f == Top(st) IN SetTop(st, Break(Push(f, dest_point(f.dest))))

\* leaving the grid without ending the loop
DoVoidContinue(st) == LET f == Top(st) IN SetTop(st, Advance(Push(f, void(f.cur, f.side))))

DoVoid(st) == LET f == Top(st) IN SetTop(st, Break(Push(f, void(f.cur, f.side))))

DoTerminate(m, st) ==
    LET f == Top(st)
    IN SetTop(st, Break(Push(f, terminated(f.cur, Get(m, f.gx, f.gy)[1], f.side))))

\* lines 52-60: push the Reflection and enter the recursive call
DoReflect(m, st) ==
    LET f == Top(st)
        g == Push(f, reflect(f.cur, Get(m, f.gx, f.gy)[1], f.side))
    IN Append(SetTop(st, [g EXCEPT !.pc = "call"]),
              NewFrame(f.cur, Mirrored(f), f.finite, f.node_limit - Len(g.points),
                       f.preds, FALSE))

DoPass(m, st) ==
    LET f == Top(st)
    IN SetTop(st, Advance(Push(f, pass(f.cur, Get(m, f.gx, f.gy)[1], f.side))))

DoStep(st) == SetTop(st, Advance(Top(st)))

\* lines 61-63: the caller extends its points with the callee's and breaks
DoReturn(st) ==
    LET cps == CastPointsOf(Top(st))
        caller == st[Len(st) - 1]
    IN SetTop(SubSeq(st, 1, Len(st) - 1),
              [caller EXCEPT !.points = caller.points \o cps.inner, !.pc = "post"])

\* one step of the running call: the arm its loop iteration takes, or its return
StepCast(m, st) ==
    LET f == Top(st)
        arm == Outcome(m, f)
    IN IF f.pc = "post" THEN DoReturn(st)
       ELSE CASE arm = "limit" -> DoLimit(st)
              [] arm = "dest" -> DoDest(st)
              [] arm = "void" -> DoVoid(st)
              [] arm = "terminate" -> DoTerminate(m, st)
              [] arm = "reflect" -> DoReflect(m, st)
              [] arm = "pass" -> DoPass(m, st)
              [] arm = "step" -> DoStep(st)

\* runs the calls on the stack to the return of the outermost one
RECURSIVE RunCast(_, _)
RunCast(m, st) ==
    IF Len(st) = 1 /\ Top(st).pc = "post" THEN CastPointsOf(Top(st))
    ELSE RunCast(m, StepCast(m, st))

\* ray_cast as a function of its arguments
ray_cast(m, from, dist, finite, node_limit, preds, skip_first_check) ==
    RunCast(m, <<NewFrame(from, dist, finite, node_limit, preds, skip_first_check)>>)

\* ------------------------------------------------------------------------
\* CastPoints::clip, Map::move_ray_cast, Map::render_ray_cast
\* ------------------------------------------------------------------------

\* the node budget both callers pass to ray_cast
NodeBudget == 8

PUSH == Q(5, 1000)

\* the loop of CastPoints::clip from element i on
RECURSIVE ClipScan(_, _, _, _)
ClipScan(inner, i, point, side) ==
    IF i > Len(inner) THEN [point |-> point, side |-> side]
    ELSE LET cp == inner[i]
         IN CASE Tag(cp) \in {"Reflection", "Pass", "Termination"} ->
                    [point |-> cp.point, side |-> Some(cp.cast_type.side)]
              [] Tag(cp) = "Void" -> ClipScan(inner, i + 1, cp.point, Some(cp.cast_type.side))
              [] Tag(cp) = "Destination" -> ClipScan(inner, i + 1, cp.point, None)

\* CastPoints::clip (the target of a finite cast is Some)
clip_of(cps) ==
    LET r == ClipScan(cps.inner, 1, <<NaN, NaN>>, None)
    IN [clip |-> VSub(cps.target[1], r.point), side |-> r.side]

\* the cast of Map::move_ray_cast
MoveCast(m, orig_p, dp) == ray_cast(m, orig_p, dp, TRUE, NodeBudget, "move", FALSE)

\* Map::move_ray_cast
move_ray_cast(m, orig_p, dp) ==
    LET c == clip_of(MoveCast(m, orig_p, dp))
    IN IF c.side # None
       THEN LET wall_dir == into_unit_vector(flip(c.side[1]))
                to_wall == Proj(c.clip, wall_dir)
            IN VAdd(to_wall, VScale(PUSH, wall_dir))
       ELSE c.clip

\* Vector2::norm is hypot(x, y), in general irrational. A length is kept as
\* the sequence of the squares of the norms it is the sum of: <<r1, .., rk>>
\* stands for sqrt(r1) + .. + sqrt(rk), and <<>> for 0
Norm(v) == <<Dot(v, v)>>

\* the length q, for q >= 0
Length(q) == <<QMul(q, q)>>

\* f32::fract
Fract(a) ==
    IF ~IsFinite(a) THEN NaN
    ELSE IF a[1] = 0 THEN a
    ELSE WithZeroSign(Q(Sgn(a[1]) * (Abs(a[1]) % a[2]), a[2]), a[1] < 0)

\* the cast of Map::render_ray_cast
RenderCast(m, orig_p, dp) == ray_cast(m, orig_p, dp, FALSE, NodeBudget, "render", TRUE)

\* the texture coordinate along the face that was hit
TexU(side, point) ==
    CASE side = "Left" -> Fract(point[2])
      [] side = "Up" -> QSub(I(1), Fract(point[1]))
      [] side = "Right" -> QSub(I(1), Fract(point[2]))
      [] side = "Down" -> Fract(point[1])

\* the filter_map of Map::render_ray_cast from element i on; a Destination
\* is unreachable!() there
RECURSIVE RenderLines(_, _, _, _)
RenderLines(inner, i, last_point, total_distance) ==
    IF i > Len(inner) THEN <<>>
    ELSE LET cp == inner[i]
             dist_vect == VSub(cp.point, last_point)
             dist == total_distance \o Norm(dist_vect)
             rest == RenderLines(inner, i + 1, cp.point, dist)
         IN CASE Tag(cp) = "Void" -> rest
              [] Tag(cp) \in {"Reflection", "Pass", "Termination"} ->
                    << [dark |-> cp.cast_type.side \in {"Left", "Right"},
                        u |-> TexU(cp.cast_type.side, cp.point),
                        p |-> last_point, dist_vect |-> dist_vect,
                        last_dist |-> total_distance,
                        dist |-> dist, mat |-> cp.cast_type.mat] >> \o rest

\* Map::render_ray_cast
render_ray_cast(m, orig_p, dp) == RenderLines(RenderCast(m, orig_p, dp).inner, 1, orig_p, <<>>)

\* ------------------------------------------------------------------------
\* vec.rs and world.rs: angles are whole quarter turns, so that the unit
\* vectors are exact
\* ------------------------------------------------------------------------

\* TAU in quarter turns
TAU == 4

\* the % of Rust: the remainder has the sign of the dividend
Rem(a, b) == Sgn(a) * (Abs(a) % b)

\* Vector2::unit_from_angle
unit_from_angle(angle) ==
    CASE angle % TAU = 0 -> <<I(1), I(0)>>
      [] angle % TAU = 1 -> <<I(0), I(1)>>
      [] angle % TAU = 2 -> <<I(-1), I(0)>>
      [] angle % TAU = 3 -> <<I(0), I(-1)>>

\* Vector2::direction_angle of the unit vector of a side
direction_angle(side) ==
    CASE side = "Right" -> 0
      [] side = "Down" -> 1
      [] side = "Left" -> 2
      [] side = "Up" -> -1

\* Vector2::hat
Hat(v) == <<QNeg(v[2]), v[1]>>

VDiv(v, s) == <<QDiv(v[1], s), QDiv(v[2], s)>>

\* Vector2::set_len, given scale = len / norm
set_len(v, scale) == IF IsFinite(scale) THEN VScale(scale, v) ELSE <<Zero, Zero>>

\* bool as i8
AsI8(b) == IF b THEN 1 ELSE 0

\* main.rs
WIDTH == 320

HALF_WIDTH == WIDTH \div 2

\* the column offset scaled by the whole screen width
ColumnRayOfWidth(angle, tan_half_fov, x) ==
    LET dir == unit_from_angle(angle)
        right_dir == Hat(dir)
        first_ray == VSub(VDiv(dir, tan_half_fov), Hat(dir))
    IN VAdd(first_ray, VScale(Q(x, WIDTH), right_dir))

\* the ray World::draw casts for screen column x
ColumnRay(angle, tan_half_fov, x) ==
    LET dir == unit_from_angle(angle)
        right_dir == Hat(dir)
        first_ray == VSub(VDiv(dir, tan_half_fov), Hat(dir))
    IN VAdd(first_ray, VScale(Q(x, HALF_WIDTH), right_dir))

\* ------------------------------------------------------------------------
\* State
\* ------------------------------------------------------------------------

VARIABLES
    map,            \* the Map: [grid, width, properties]
    stack,          \* the activation records of the running ray_cast, innermost last
    result,         \* what the outermost ray_cast returned: None or Some(CastPoints)
    probe,          \* the last direct Map::get call: None or Some([x, y, value])
    player_p,       \* World::player_p
    player_angle,   \* World::player_angle, in quarter turns
    clip,           \* World::clip
    ticks,          \* how many times World::update ran
    last_dp,        \* orig_p, dp and clip of the last World::update that moved, or None
    tan_half_fov,   \* World::fov.tan_half_fov
    lines,          \* the last column rendered: None or Some([x, lines])
    buffer,         \* Frame::buffer, pixel by pixel: [len, fill, set]
    last_draw,      \* the last Frame draw call and the buffer it met, or None
    coords,         \* a pixel's (x, y): None or Some(<<x, y>>)
    index,          \* a pixel's index in the frame: None or Some(i)
    things,         \* World::things
    sprites,        \* the things drawn for the last segment: None or Some([p, with_player, order])
    file,           \* the grid lines of the map file
    loaded          \* what Map::from_file made of them: None or Some(outcome)

world == <<player_p, player_angle, clip, ticks, last_dp>>

screen == <<tan_half_fov, lines>>

sink == <<buffer, last_draw, coords, index, things, sprites>>

loader == <<file, loaded>>

vars == <<map, stack, result, probe, world, screen, sink, loader>>

\* ------------------------------------------------------------------------
\* Bounds and inputs
\* ------------------------------------------------------------------------

\* node budgets 0..MaxLimit
MaxLimit == 2

\* the sample maps are GridShape.width x GridShape.height with at most
\* GridShape.nodes cells that are not air
GridShape == [width |-> 3, height |-> 2, nodes |-> 2]

\* the properties table of the sample maps: 1 wall, 2 glass, 3 mirror, 4 curtain
\* (map.rs:57-70: solid unless "nonsolid", "reflective" implies transparent)
Materials ==
    << [solid |-> TRUE, transparent |-> FALSE, reflective |-> FALSE, door |-> FALSE],
       [solid |-> TRUE, transparent |-> TRUE, reflective |-> FALSE, door |-> FALSE],
       [solid |-> TRUE, transparent |-> TRUE, reflective |-> TRUE, door |-> FALSE],
       [solid |-> FALSE, transparent |-> FALSE, reflective |-> FALSE, door |-> FALSE] >>

Cells == 1..(GridShape.width * GridShape.height)

Grids ==
    {g \in [Cells -> 0..3] :
        Cardinality({i \in Cells : g[i] # Air}) <= GridShape.nodes}

Maps == {[grid |-> g, width |-> GridShape.width, properties |-> Materials] : g \in Grids}

\* coordinates are multiples of one half
Half(k) == Q(k, 2)

\* origins: around the corner (1, 1) shared by the first two columns and rows:
\* on it, on the vertical or the horizontal grid line through it, and the
\* centre of the cell (1, 0)
Origins == {Half(2), Half(3)} \X {Half(1), Half(2)}

\* direction components: up to one cell either way, and zero
Components == {Half(k) : k \in -2..2}

Dists == Components \X Components

\* who calls ray_cast: Map::move_ray_cast, Map::render_ray_cast, and a finite
\* cast with the rendering predicates (ray_cast is a public generic function)
Profiles ==
    { [finite |-> TRUE, preds |-> "move", skip_first_check |-> FALSE],
      [finite |-> FALSE, preds |-> "render", skip_first_check |-> TRUE],
      [finite |-> TRUE, preds |-> "render", skip_first_check |-> FALSE] }

\* ------------------------------------------------------------------------
\* Actions
\* ------------------------------------------------------------------------

Idle == stack = <<>> /\ result = None

Running == stack # <<>> /\ Top(stack).pc = "loop"

\* nothing is running and no World is in play
NoCast == stack = <<>> /\ result = None

NoProbe == probe = None

\* no Frame is in play
NoSink ==
    /\ buffer = None /\ last_draw = None /\ coords = None /\ index = None
    /\ things = <<>> /\ sprites = None
    /\ file = <<>> /\ loaded = None

NoWorld ==
    /\ player_p = <<Zero, Zero>> /\ player_angle = 0 /\ clip = TRUE /\ ticks = 0
    /\ last_dp = None
    /\ tan_half_fov = I(1) /\ lines = None

Init ==
    /\ map \in Maps
    /\ NoCast /\ NoProbe /\ NoSink /\ NoWorld

\* a call of ray_cast
Call ==
    /\ Idle
    /\ \E from \in Origins, dist \in Dists, node_limit \in 0..MaxLimit, p \in Profiles :
          stack' = <<NewFrame(from, dist, p.finite, node_limit, p.preds, p.skip_first_check)>>
    /\ UNCHANGED <<map, result, probe, world, screen, sink, loader>>

\* lines 29-31
LoopLimit ==
    /\ Running /\ Outcome(map, Top(stack)) = "limit"
    /\ stack' = DoLimit(stack)
    /\ UNCHANGED <<map, result, probe, world, screen, sink, loader>>

\* lines 33-36
LoopDestination ==
    /\ Running /\ Outcome(map, Top(stack)) = "dest"
    /\ stack' = DoDest(stack)
    /\ UNCHANGED <<map, result, probe, world, screen, sink, loader>>

\* lines 39-42 and 68-71
LoopVoid ==
    /\ Running /\ Outcome(map, Top(stack)) = "void"
    /\ stack' = DoVoid(stack)
    /\ UNCHANGED <<map, result, probe, world, screen, sink, loader>>

\* lines 48-50
LoopTerminate ==
    /\ Running /\ Outcome(map, Top(stack)) = "terminate"
    /\ stack' = DoTerminate(map, stack)
    /\ UNCHANGED <<map, result, probe, world, screen, sink, loader>>

\* lines 51-60
LoopReflect ==
    /\ Running /\ Outcome(map, Top(stack)) = "reflect"
    /\ stack' = DoReflect(map, stack)
    /\ UNCHANGED <<map, result, probe, world, screen, sink, loader>>

\* lines 64-66 and 73-95
LoopPass ==
    /\ Running /\ Outcome(map, Top(stack)) = "pass"
    /\ stack' = DoPass(map, stack)
    /\ UNCHANGED <<map, result, probe, world, screen, sink, loader>>

\* lines 73-95
LoopStep ==
    /\ Running /\ Outcome(map, Top(stack)) = "step"
    /\ stack' = DoStep(stack)
    /\ UNCHANGED <<map, result, probe, world, screen, sink, loader>>

\* lines 98-113 of a recursive call, then lines 61-63 of its caller
Return ==
    /\ Len(stack) > 1 /\ Top(stack).pc = "post"
    /\ stack' = DoReturn(stack)
    /\ UNCHANGED <<map, result, probe, world, screen, sink, loader>>

\* lines 98-113 of the outermost call
Finish ==
    /\ Len(stack) = 1 /\ Top(stack).pc = "post"
    /\ result' = Some(CastPointsOf(Top(stack)))
    /\ stack' = <<>>
    /\ UNCHANGED <<map, probe, world, screen, sink, loader>>

Next ==
    \/ Call
    \/ LoopLimit
    \/ LoopDestination
    \/ LoopVoid
    \/ LoopTerminate
    \/ LoopReflect
    \/ LoopPass
    \/ LoopStep
    \/ Return
    \/ Finish

Spec == Init /\ [][Next]_vars

\* ------------------------------------------------------------------------
\* Map::get called directly
\* ------------------------------------------------------------------------

\* coordinates -2..MaxProbe are looked up
MaxProbe == 4

Probes == -2..MaxProbe

\* maps of every shape up to 3 x 2, of air and wall
GetMaps ==
    UNION {{[grid |-> g, width |-> w, properties |-> Materials] : g \in [1..(w * h) -> 0..1]} :
              w \in 1..3, h \in 1..2}

InitGet ==
    /\ map \in GetMaps
    /\ NoCast /\ NoProbe /\ NoSink /\ NoWorld

GetCall ==
    /\ \E x \in Probes, y \in Probes : probe' = Some([x |-> x, y |-> y, value |-> Get(map, x, y)])
    /\ UNCHANGED <<map, stack, result, world, screen, sink, loader>>

NextGet == GetCall

SpecGet == InitGet /\ [][NextGet]_vars

\* ------------------------------------------------------------------------
\* World::new and World::update
\* ------------------------------------------------------------------------

\* World::update runs at most MaxTicks times
MaxTicks == 2

\* the maps of the World: at most one wall (1) and at most one curtain (4)
WorldGrids ==
    {g \in [Cells -> {0, 1, 4}] :
        /\ Cardinality({i \in Cells : g[i] = 1}) <= 1
        /\ Cardinality({i \in Cells : g[i] = 4}) <= 1}

\* the cell the player starts in
WorldStart == <<1, 0>>

WorldMaps == {[grid |-> g, width |-> GridShape.width, properties |-> Materials] : g \in WorldGrids}

\* scale = delta * WALK_SPEED / norm: no move, half a cell, one cell
Scales == {Zero, Half(1), I(1)}

\* delta * TURN_SPEED, in quarter turns
Turns == {1}

\* the side the player starts facing
StartSides == {"Right"}

\* World::new: the map file names an air cell and a side to start at
InitWorld ==
    /\ map \in WorldMaps
    /\ NoCast /\ NoProbe /\ NoSink
    /\ Get(map, WorldStart[1], WorldStart[2]) = Some(Air)
    /\ player_p = <<QAdd(I(WorldStart[1]), Half(1)), QAdd(I(WorldStart[2]), Half(1))>>
    /\ \E s \in StartSides : player_angle = direction_angle(s)
    /\ clip = TRUE
    /\ ticks = 0
    /\ last_dp = None
    /\ tan_half_fov = I(1)
    /\ lines = None

\* lines 48-51
Turned(angle, turn, left, right) ==
    IF left \/ right THEN Rem(angle + turn * (AsI8(right) - AsI8(left)), TAU) ELSE angle

\* line 53
Moving(forwards, backwards, go_left, go_right) ==
    (forwards # backwards) \/ (go_left # go_right)

\* lines 54-56
Displacement(angle, scale, forwards, backwards, go_left, go_right) ==
    LET dv == unit_from_angle(angle)
        dp == VAdd(VScale(I(AsI8(forwards) - AsI8(backwards)), dv),
                   VScale(I(AsI8(go_right) - AsI8(go_left)), Hat(dv)))
    IN set_len(dp, scale)

\* lines 58-64
Moved(m, orig_p, dp, clipping) ==
    IF clipping THEN VSub(VAdd(orig_p, dp), move_ray_cast(m, orig_p, dp))
    ELSE VAdd(orig_p, dp)

\* World::update
Update(turn, scale, left, right, forwards, backwards, go_left, go_right) ==
    /\ ticks < MaxTicks
    /\ ticks' = ticks + 1
    /\ player_angle' = Turned(player_angle, turn, left, right)
    /\ IF Moving(forwards, backwards, go_left, go_right)
       THEN LET dp == Displacement(player_angle', scale, forwards, backwards, go_left, go_right)
            IN /\ player_p' = Moved(map, player_p, dp, clip)
               /\ last_dp' = Some([orig_p |-> player_p, dp |-> dp, clip |-> clip])
       ELSE UNCHANGED <<player_p, last_dp>>
    /\ UNCHANGED <<map, stack, result, probe, clip, screen, sink, loader>>

\* the keys held: every combination of the four movement keys without a
\* turn key, and the turn keys alone, together, and with the forwards key
KeySets ==
    {[left |-> FALSE, right |-> FALSE, forwards |-> f, backwards |-> b,
      go_left |-> l, go_right |-> r] : f \in BOOLEAN, b \in BOOLEAN, l \in BOOLEAN, r \in BOOLEAN}
    \cup {[left |-> l, right |-> r, forwards |-> f, backwards |-> FALSE,
            go_left |-> FALSE, go_right |-> FALSE] :
              l \in BOOLEAN, r \in BOOLEAN, f \in BOOLEAN}

UpdateAny ==
    \E turn \in Turns, scale \in Scales, k \in KeySets :
        Update(turn, scale, k.left, k.right, k.forwards, k.backwards, k.go_left, k.go_right)

\* main.rs:95-98: the N key
ToggleClip ==
    /\ clip' = ~clip
    /\ UNCHANGED <<map, stack, result, probe, player_p, player_angle, ticks, last_dp, screen, sink, loader>>

NextWorld == UpdateAny \/ ToggleClip

SpecWorld == InitWorld /\ [][NextWorld]_vars

\* ------------------------------------------------------------------------
\* World::draw: the cast of one screen column
\* ------------------------------------------------------------------------

\* the grid of the sample scenario is RenderSize x RenderSize
RenderSize == 16

\* bordered by wall, with material mat at cell (nx, ny)
BorderedGrid(nx, ny, mat) ==
    [i \in 1..(RenderSize * RenderSize) |->
        LET x == (i - 1) % RenderSize
            y == (i - 1) \div RenderSize
        IN IF x \in {0, RenderSize - 1} \/ y \in {0, RenderSize - 1} THEN 1
           ELSE IF x = nx /\ y = ny THEN mat
           ELSE Air]

Interior == 1..(RenderSize - 2)

\* the cell the camera starts in
StartCell == <<6, 6>>

\* the rows of the cell that is not air: the camera's and the next
NodeRows == {StartCell[2], StartCell[2] + 1}

RenderMaps ==
    {[grid |-> BorderedGrid(nx, ny, mat), width |-> RenderSize, properties |-> Materials] :
        nx \in Interior, ny \in NodeRows, mat \in 0..3}

\* tan_half_fov by field of view, narrow to wide (65 degrees is near 2/3)
TanHalfFovs == <<Q(1, 2), Q(2, 3), I(1)>>

\* the columns that are rendered: the first and the centre one
Columns == {0, HALF_WIDTH}

InitRender ==
    /\ map \in RenderMaps
    /\ NoCast /\ NoProbe /\ NoSink
    /\ player_p = <<QAdd(I(StartCell[1]), Half(1)), QAdd(I(StartCell[2]), Half(1))>>
    /\ player_angle \in {direction_angle(s) : s \in Sides}
    /\ clip = TRUE
    /\ ticks = 0
    /\ last_dp = None
    /\ tan_half_fov = TanHalfFovs[2]
    /\ lines = None

\* World::draw, lines 75-83, for one x of the loop
DrawColumn ==
    /\ \E x \in Columns :
          lines' = Some([x |-> x,
                         lines |-> render_ray_cast(map, player_p,
                                                   ColumnRay(player_angle, tan_half_fov, x))])
    /\ UNCHANGED <<map, stack, result, probe, world, tan_half_fov, sink, loader>>

\* Fov::change_fov, to the next wider or narrower field of view
ChangeFov ==
    /\ \E i \in 1..Len(TanHalfFovs), j \in 1..Len(TanHalfFovs) :
          /\ tan_half_fov = TanHalfFovs[i]
          /\ j \in {i - 1, i + 1}
          /\ tan_half_fov' = TanHalfFovs[j]
    /\ UNCHANGED <<map, stack, result, probe, world, lines, sink, loader>>

NextRender == DrawColumn \/ ChangeFov

SpecRender == InitRender /\ [][NextRender]_vars

\* ------------------------------------------------------------------------
\* tex.rs: Colour, TColour, Frame and the pixel-index mapping
\* ------------------------------------------------------------------------

HEIGHT == 240

\* x * WIDTH + y, the two coordinates taken for each other
coords_to_index_swapped(x, y) == x * WIDTH + y

\* coords_to_index: usize arithmetic on u32 arguments, which cannot overflow
\* 64 bits
coords_to_index(x, y) == y * WIDTH + x

\* index_to_coords (the indices met stay below 2^31, where `as u32` keeps them)
index_to_coords(i) == <<i % WIDTH, i \div WIDTH>>

\* u8_frac_mul: the product is a u16, the quotient is cast to u8
u8_frac_mul(a, b) == (((a * b) % 65536) \div 255) % 256

\* u8 + u8: a debug build panics when the sum passes 255, a release build wraps
U8Add(a, b) == (a + b) % 256

U8AddOverflows(a, b) == a + b > 255

\* Colour and TColour
Colour(r, g, b) == [r |-> r, g |-> g, b |-> b]

TColour(r, g, b, a) == [r |-> r, g |-> g, b |-> b, a |-> a]

\* Colour::array
ColourArray(c) == <<c.r, c.g, c.b, 255>>

\* Colour::alpha
Alpha(c, a) == TColour(c.r, c.g, c.b, a)

\* TColour::rgb
Rgb(t) == Colour(t.r, t.g, t.b)

\* the blend of one channel that forgets the destination
BlendSourceOnly(s, d, a) == u8_frac_mul(s, a)

\* one channel of TColour::on, lines 100-102
Blend(s, d, a) == U8Add(u8_frac_mul(s, a), u8_frac_mul(d, 255 - a))

BlendOverflows(s, d, a) == U8AddOverflows(u8_frac_mul(s, a), u8_frac_mul(d, 255 - a))

\* TColour::on: [value, failed]; failed is the todo!() of the last branch or
\* an overflowing sum
On(self, other) ==
    IF other.a = 0 \/ self.a = 255 THEN [value |-> self, failed |-> FALSE]
    ELSE IF other.a = 255
         THEN [value |-> TColour(Blend(self.r, other.r, self.a),
                                 Blend(self.g, other.g, self.a),
                                 Blend(self.b, other.b, self.a), 255),
               failed |-> \/ BlendOverflows(self.r, other.r, self.a)
                          \/ BlendOverflows(self.g, other.g, self.a)
                          \/ BlendOverflows(self.b, other.b, self.a)]
         ELSE [value |-> self, failed |-> TRUE]

\* Frame::buffer is kept pixel by pixel: len is its length in bytes, set holds
\* the four bytes of every pixel written so far and fill the four bytes of
\* every other pixel
NewBuffer(len, fill) == [len |-> len, fill |-> fill, set |-> <<>>]

\* the four bytes at 4 * i .. 4 * i + 4
Pixel(buf, i) == IF i \in DOMAIN buf.set THEN buf.set[i] ELSE buf.fill

\* slice::get and slice::get_mut with a range: Some when the range lies in the
\* slice
InSlice(buf, start, end) == start <= end /\ end <= buf.len

\* a range test that lets every index through
InSliceAlways(buf, start, end) == TRUE

SetPixel(buf, i, bytes) ==
    [buf EXCEPT !.set = [j \in (DOMAIN buf.set) \cup {i} |->
                             IF j = i THEN bytes ELSE buf.set[j]]]

\* Frame::draw_rgb
draw_rgb(buf, x, y, p) ==
    LET i == coords_to_index(x, y)
    IN IF InSlice(buf, i * 4, i * 4 + 4) THEN SetPixel(buf, i, ColourArray(p)) ELSE buf

\* Frame::draw_rgba: [buffer, failed]
draw_rgba(buf, x, y, p) ==
    LET alpha == p.a
    IN IF alpha # 0
       THEN IF alpha = 255
            THEN [buffer |-> draw_rgb(buf, x, y, Rgb(p)), failed |-> FALSE]
            ELSE LET i == coords_to_index(x, y)
                 IN IF InSlice(buf, i * 4, i * 4 + 3)
                    THEN LET bytes == Pixel(buf, i)
                             orig == Alpha(Colour(bytes[1], bytes[2], bytes[3]), 255)
                             blended == On(p, orig)
                         IN [buffer |-> draw_rgb(buf, x, y, Rgb(blended.value)),
                             failed |-> blended.failed]
                    ELSE [buffer |-> buf, failed |-> FALSE]
       ELSE [buffer |-> buf, failed |-> FALSE]

\* at most MaxDraws draw calls reach one frame
MaxDraws == 2

\* coordinates of the frame, just outside of it and far outside of it
FrameXs == {0, WIDTH - 1, WIDTH, WIDTH * HEIGHT}

FrameYs == {0, HEIGHT - 1, HEIGHT, WIDTH * HEIGHT}

Fills == {<<0, 0, 0, 0>>, <<200, 100, 50, 255>>}

Rgbs == {Colour(255, 0, 128), Colour(1, 254, 127)}

Alphas == {0, 1, 128, 254, 255}

Draws == IF last_draw = None THEN 0 ELSE last_draw[1].n

\* Frame::from_pixels on the Pixels::new(WIDTH, HEIGHT, ..) of main.rs
InitFrame ==
    /\ map \in {[grid |-> <<>>, width |-> 0, properties |-> Materials]}
    /\ NoCast /\ NoProbe /\ NoWorld
    /\ \E fill \in Fills : buffer = Some(NewBuffer(WIDTH * HEIGHT * 4, fill))
    /\ last_draw = None /\ coords = None /\ index = None
    /\ things = <<>> /\ sprites = None
    /\ file = <<>> /\ loaded = None

DrawRgb ==
    /\ buffer # None /\ Draws < MaxDraws
    /\ \E x \in FrameXs, y \in FrameYs, c \in Rgbs :
          /\ buffer' = Some(draw_rgb(buffer[1], x, y, c))
          /\ last_draw' = Some([n |-> Draws + 1, op |-> "draw_rgb", x |-> x, y |-> y,
                                p |-> Alpha(c, 255), before |-> buffer[1],
                                failed |-> FALSE])
    /\ UNCHANGED <<map, stack, result, probe, world, screen, coords, index, things, sprites, loader>>

DrawRgba ==
    /\ buffer # None /\ Draws < MaxDraws
    /\ \E x \in FrameXs, y \in FrameYs, c \in Rgbs, a \in Alphas :
          LET r == draw_rgba(buffer[1], x, y, Alpha(c, a))
          IN /\ buffer' = Some(r.buffer)
             /\ last_draw' = Some([n |-> Draws + 1, op |-> "draw_rgba", x |-> x, y |-> y,
                                   p |-> Alpha(c, a), before |-> buffer[1],
                                   failed |-> r.failed])
    /\ UNCHANGED <<map, stack, result, probe, world, screen, coords, index, things, sprites, loader>>

NextFrame == DrawRgb \/ DrawRgba

SpecFrame == InitFrame /\ [][NextFrame]_vars

\* the pixel-index mapping on its own: every coordinate of the frame and one
\* past it on either axis, and every index of the frame
InitIndex ==
    /\ map \in {[grid |-> <<>>, width |-> 0, properties |-> Materials]}
    /\ NoCast /\ NoProbe /\ NoWorld
    /\ buffer = None /\ last_draw = None
    /\ things = <<>> /\ sprites = None
    /\ file = <<>> /\ loaded = None
    /\ \/ index = None /\ \E x \in 0..WIDTH, y \in 0..HEIGHT : coords = Some(<<x, y>>)
       \/ coords = None /\ \E i \in 0..(WIDTH * HEIGHT - 1) : index = Some(i)

ToIndex ==
    /\ coords # None
    /\ index' = Some(coords_to_index(coords[1][1], coords[1][2]))
    /\ UNCHANGED <<map, stack, result, probe, world, screen, buffer, last_draw, coords, things, sprites, loader>>

ToCoords ==
    /\ index # None
    /\ coords' = Some(index_to_coords(index[1]))
    /\ UNCHANGED <<map, stack, result, probe, world, screen, buffer, last_draw, index, things, sprites, loader>>

NextIndex == ToIndex \/ ToCoords

SpecIndex == InitIndex /\ [][NextIndex]_vars

\* ------------------------------------------------------------------------
\* world.rs and world/thing.rs: the things drawn for one ray segment
\* ------------------------------------------------------------------------

\* Thing::new
Thing(pos, width, tex) == [pos |-> pos, width |-> width, tex |-> tex]

\* (t.pos - p).norm(), kept as its square: hypot is monotone in it
NormSq(t, p) == Dot(VSub(t.pos, p), VSub(t.pos, p))

\* f32::total_cmp on two norms of finite vectors
total_cmp(a, b) == IF QLt(a, b) THEN "Less" ELSE IF QLt(b, a) THEN "Greater" ELSE "Equal"

\* Ordering::reverse
reverse(o) == CASE o = "Less" -> "Greater" [] o = "Greater" -> "Less" [] o = "Equal" -> "Equal"

\* the comparison without its reverse()
ThingCmpForwards(t, p, dist) == total_cmp(NormSq(t, p), dist)

\* the closure of line 129
ThingCmp(t, p, dist) == reverse(total_cmp(NormSq(t, p), dist))

\* slice::binary_search_by(..).unwrap_or_else(|e| e) on a slice sorted by the
\* comparison: the index of any element that compares Equal, and with none
\* the index at which one could be inserted; indices count from 0
BinarySearch(ts, p, dist) ==
    LET equal == {i \in 1..Len(ts) : ThingCmp(ts[i], p, dist) = "Equal"}
        less == {i \in 1..Len(ts) : ThingCmp(ts[i], p, dist) = "Less"}
    IN IF equal # {} THEN {i - 1 : i \in equal} ELSE {Cardinality(less)}

\* Vec::insert
Insert(ts, i, t) == SubSeq(ts, 1, i) \o <<t>> \o SubSeq(ts, i + 1, Len(ts))

\* lines 127-131 from the k-th thing on: every list the loop can end with
RECURSIVE InsertThings(_, _, _, _)
InsertThings(sorted, all, k, p) ==
    IF k > Len(all) THEN {sorted}
    ELSE UNION {InsertThings(Insert(sorted, i, all[k]), all, k + 1, p) :
                    i \in BinarySearch(sorted, p, NormSq(all[k], p))}

\* Thing::new(self.player_p, 0.25, self.thing_texes.len()-1)
PlayerThing(pos) == Thing(pos, Q(1, 4), 1)

\* lines 122-131: the list that line 133 draws in order
SegmentThings(all, player_pos, p, with_player) ==
    InsertThings(IF with_player THEN <<PlayerThing(player_pos)>> ELSE <<>>, all, 1, p)

\* at most MaxThings things stand on the map
MaxThings == 3

\* things stand at centres of cells (map.rs:129)
ThingPositions == {<<Half(1), Half(1)>>, <<Half(3), Half(1)>>, <<Half(5), Half(1)>>,
                   <<Half(1), Half(3)>>, <<Half(3), Half(3)>>}

\* where a segment of a ray starts: the player's position, or a point of a
\* grid line where the ray passed or was reflected
SegmentStarts == {<<Half(1), Half(1)>>, <<Half(2), Half(1)>>, <<Half(3), Half(2)>>}

ThingLists ==
    UNION {{ts \in [1..n -> {Thing(pos, Q(1, 4), 0) : pos \in ThingPositions}] :
               \A i, j \in 1..n : i # j => ts[i] # ts[j]} : n \in 0..MaxThings}

InitThings ==
    /\ map \in {[grid |-> <<>>, width |-> 0, properties |-> Materials]}
    /\ NoCast /\ NoProbe
    /\ player_p \in {<<Half(1), Half(1)>>, <<Half(3), Half(1)>>}
    /\ player_angle = 0 /\ clip = TRUE /\ ticks = 0 /\ last_dp = None
    /\ tan_half_fov = I(1) /\ lines = None
    /\ buffer = None /\ last_draw = None /\ coords = None /\ index = None
    /\ things \in ThingLists
    /\ sprites = None
    /\ file = <<>> /\ loaded = None

\* World::draw, lines 119-135, for one line of one ray
DrawThings ==
    /\ \E p \in SegmentStarts, with_player \in BOOLEAN :
          \E order \in SegmentThings(things, player_p, p, with_player) :
              sprites' = Some([p |-> p, with_player |-> with_player, order |-> order])
    /\ UNCHANGED <<map, stack, result, probe, world, screen, buffer, last_draw, coords, index,
                   things, loader>>

NextThings == DrawThings

SpecThings == InitThings /\ [][NextThings]_vars

\* ------------------------------------------------------------------------
\* map.rs: the grid of Map::from_file
\* ------------------------------------------------------------------------

\* the characters that start the player, and the side each one faces
PlayerTokens == {">", "<", "^", "v"}

TokenSide(c) ==
    CASE c = ">" -> "Right" [] c = "<" -> "Left" [] c = "^" -> "Up" [] c = "v" -> "Down"

\* the material_map of a file that declares '#' as its first material and
\* 't' as a thing: lines 39-43, 89 and 96
MaterialChars == {" ", "<", ">", "^", "v", "#", "t"}

material_map(c) == IF c = "#" THEN 1 ELSE Air

\* the thing_map of that file: width 0.25, texture 0
thing_map(c) == IF c = "t" THEN Some(<<Q(1, 4), 0>>) ELSE None

\* str::trim, of the spaces at either end
RECURSIVE TrimStart(_)
TrimStart(line) ==
    IF line # <<>> /\ line[1] = " " THEN TrimStart(Tail(line)) ELSE line

RECURSIVE TrimEnd(_)
TrimEnd(line) ==
    IF line # <<>> /\ line[Len(line)] = " " THEN TrimEnd(SubSeq(line, 1, Len(line) - 1))
    ELSE line

Trim(line) == TrimEnd(TrimStart(line))

\* the state of the loop of lines 107-141: the locals, and the panic met
NewLoad == [grid |-> <<>>, things |-> <<>>, width |-> 0, player |-> None, panic |-> None]

\* lines 113-132 for one character
LoadChar(st, c) ==
    IF c \notin MaterialChars THEN [st EXCEPT !.panic = Some("no entry found for key")]
    ELSE LET mat == material_map(c)
             grid == Append(st.grid, mat)
             w == IF st.width = 0 THEN I32Max ELSE st.width
             l == Len(grid) - 1
             i == l % w
             j == l \div w
         IN IF ~IsAir(mat) THEN [st EXCEPT !.grid = grid]
            ELSE IF c \in PlayerTokens
                 THEN [st EXCEPT !.grid = grid, !.player = Some(<<i, j, TokenSide(c)>>)]
            ELSE IF c = " " THEN [st EXCEPT !.grid = grid]
            ELSE IF thing_map(c) = None
                 THEN [st EXCEPT !.panic = Some("character was neither a player nor declared")]
                 ELSE [st EXCEPT !.grid = grid,
                                 !.things = Append(st.things,
                                                   Thing(<<QAdd(I(i), Half(1)), QAdd(I(j), Half(1))>>,
                                                         thing_map(c)[1][1], thing_map(c)[1][2]))]

\* lines 112-135 from the k-th character of a line on
RECURSIVE LoadChars(_, _, _)
LoadChars(st, line, k) ==
    IF k > Len(line) \/ st.panic # None THEN st
    ELSE LoadChars(LoadChar(st, line[k]), line, k + 1)

\* lines 108-140 for one line
LoadLine(st, raw) ==
    LET line == Trim(raw)
        after == LoadChars(st, line, 1)
        len == Len(line)
    IN IF after.panic # None THEN after
       ELSE IF after.width = 0 THEN [after EXCEPT !.width = len]
       ELSE IF after.width # len
            THEN [after EXCEPT !.panic = Some("this line was not as long as the previous lines")]
            ELSE after

\* lines 107-141 from the k-th line on
RECURSIVE LoadLines(_, _, _)
LoadLines(st, lines_, k) ==
    IF k > Len(lines_) \/ st.panic # None THEN st
    ELSE LoadLines(LoadLine(st, lines_[k]), lines_, k + 1)

\* Map::from_file, lines 102-152: what it returns, or the panic that ends it
from_file(lines_) ==
    LET st == LoadLines(NewLoad, lines_, 1)
    IN IF st.panic # None THEN [ok |-> FALSE, panic |-> st.panic[1]]
       ELSE IF st.player = None THEN [ok |-> FALSE, panic |-> "no player on map"]
       ELSE [ok |-> TRUE,
             map |-> [grid |-> st.grid, width |-> st.width, properties |-> Materials],
             i |-> st.player[1][1], j |-> st.player[1][2], s |-> st.player[1][3],
             things |-> st.things]

\* the grids that are loaded have up to MaxRows lines of up to MaxCols characters
MaxRows == 2

MaxCols == 3

FileChars == {" ", ">", "v", "#", "t"}

FileLines == UNION {[1..n -> FileChars] : n \in 0..MaxCols}

Files == UNION {[1..n -> FileLines] : n \in 0..MaxRows}

InitLoad ==
    /\ map \in {[grid |-> <<>>, width |-> 0, properties |-> Materials]}
    /\ NoCast /\ NoProbe /\ NoWorld
    /\ buffer = None /\ last_draw = None /\ coords = None /\ index = None
    /\ things = <<>> /\ sprites = None
    /\ file \in Files
    /\ loaded = None

\* Map::from_file on the grid lines of the file
Load ==
    /\ loaded = None
    /\ loaded' = Some(from_file(file))
    /\ map' = IF loaded'[1].ok THEN loaded'[1].map ELSE map
    /\ UNCHANGED <<stack, result, probe, world, screen, sink, file>>

NextLoad == Load

SpecLoad == InitLoad /\ [][NextLoad]_vars

\* ------------------------------------------------------------------------
\* Properties of ray_cast
\* ------------------------------------------------------------------------

\* a call (outermost or recursive) has left its loop and is about to return
Returning == stack # <<>> /\ Top(stack).pc = "post"

\* the list it returns
ReturnedPoints == CastPointsOf(Top(stack)).inner

Last(pts) == pts[Len(pts)]

TerminalTags == {"Termination", "Void", "Destination"}

MiddleTags == {"Pass", "Reflection"}

\* C2 as claimed: a list returned under a node budget >= 1 is non-empty and
\* ends with a Termination, a Void or a Destination
C2_LastIsTerminal ==
    (Returning /\ Top(stack).node_limit >= 1) =>
        /\ Len(ReturnedPoints) > 0
        /\ Tag(Last(ReturnedPoints)) \in TerminalTags

\* C2 amended: a list returned under a node budget >= 1 is non-empty, and it
\* ends with a Termination, a Void or a Destination unless the node budget is
\* used up (the list holds at least node_limit points), when its last point
\* may also be a Pass or a Reflection
C2_LastIsTerminalOrBudgetSpent ==
    (Returning /\ Top(stack).node_limit >= 1) =>
        /\ Len(ReturnedPoints) > 0
        /\ \/ Tag(Last(ReturnedPoints)) \in TerminalTags
           \/ /\ Len(ReturnedPoints) >= Top(stack).node_limit
              /\ Tag(Last(ReturnedPoints)) \in MiddleTags

\* a cast cut short by its budget right after a reflection
C2_Witness ==
    /\ Returning /\ Len(stack) = 1
    /\ Top(stack).node_limit = 2
    /\ Len(ReturnedPoints) = 2
    /\ Tag(Last(ReturnedPoints)) = "Reflection"

\* C3 as claimed: a finite cast under a node budget >= 1 returns at most
\* node_limit points, all reflection levels counted
C3_WithinBudget ==
    (Returning /\ Top(stack).finite /\ Top(stack).node_limit >= 1) =>
        Len(ReturnedPoints) <= Top(stack).node_limit

AllAir(m) == \A i \in 1..Len(m.grid) : IsAir(m.grid[i])

\* inside the stored rectangle
InsideMap(m, p) ==
    /\ QGe(p[1], Zero) /\ QLt(p[1], I(m.width))
    /\ QGe(p[2], Zero) /\ QLt(p[2], I(Height(m)))

\* C4 as claimed: in an all-air map a finite cast under a budget >= 1 whose
\* origin and destination are inside the rectangle returns exactly
\* [Destination], at origin + direction
C4_AllAirIsDestination ==
    (/\ Returning /\ Len(stack) = 1
     /\ Top(stack).finite /\ Top(stack).node_limit >= 1
     /\ AllAir(map)
     /\ InsideMap(map, Top(stack).from)
     /\ InsideMap(map, VAdd(Top(stack).from, Top(stack).dist))) =>
        ReturnedPoints = <<dest_point(VAdd(Top(stack).from, Top(stack).dist))>>

\* C4 for directions that are not the zero vector
C4_NonZeroDirection ==
    (/\ Returning /\ Len(stack) = 1
     /\ Top(stack).finite /\ Top(stack).node_limit >= 1
     /\ AllAir(map)
     /\ NormClass(Top(stack).dist) = "pos"
     /\ InsideMap(map, Top(stack).from)
     /\ InsideMap(map, VAdd(Top(stack).from, Top(stack).dist))) =>
        ReturnedPoints = <<dest_point(VAdd(Top(stack).from, Top(stack).dist))>>

\* C5 as claimed: every point but the last is a Pass or a Reflection
C5_MiddleArePassOrReflection ==
    Returning =>
        \A i \in 1..(Len(ReturnedPoints) - 1) : Tag(ReturnedPoints[i]) \in MiddleTags

\* C5 amended: every point but the last is a Pass or a Reflection, except
\* that a finite cast may end with a Void immediately followed by the final
\* Destination
C5_MiddleArePassOrReflectionOrVoidBeforeDestination ==
    Returning =>
        \A i \in 1..(Len(ReturnedPoints) - 1) :
            \/ Tag(ReturnedPoints[i]) \in MiddleTags
            \/ /\ Top(stack).finite
               /\ i = Len(ReturnedPoints) - 1
               /\ Tag(ReturnedPoints[i]) = "Void"
               /\ Tag(Last(ReturnedPoints)) = "Destination"

\* a finite cast that passed glass, left the grid and got its Destination
C5_Witness ==
    /\ Returning
    /\ Len(ReturnedPoints) = 3
    /\ Tag(ReturnedPoints[1]) = "Pass"
    /\ Tag(ReturnedPoints[2]) = "Void"
    /\ Tag(ReturnedPoints[3]) = "Destination"

\* the ray of call f travels in +x with zero y component and stands on the
\* left face of its cell
EntersFromLeft(f) ==
    /\ QLt(Zero, f.dist[1])
    /\ IsZero(f.dist[2])
    /\ f.cur[1] = I(f.gx)

\* C6: when a ray travelling in +x with zero y component meets a reflective
\* cell at the cell's left face, the call pushes a Reflection with side Left
\* at that point and starts a sub-cast there whose direction is the incoming
\* direction (finite casts: the remaining vector to the destination) with x
\* negated and y unchanged; when a sub-cast returns, its points are appended
\* right after the caller's Reflection
C6_ReflectsOffLeftFace ==
    [][/\ (LoopReflect /\ EntersFromLeft(Top(stack))) =>
            LET f == Top(stack)
                caller == stack'[Len(stack)]
                sub == Top(stack')
                r == Last(caller.points)
                incoming == IF f.finite THEN VSub(f.dest, f.cur) ELSE f.dist
            IN /\ Len(stack') = Len(stack) + 1
               /\ caller.points = Append(f.points, r)
               /\ Tag(r) = "Reflection"
               /\ r.cast_type.side = "Left"
               /\ r.point = <<I(f.gx), f.cur[2]>>
               /\ sub.from = r.point
               /\ sub.dist = <<QNeg(incoming[1]), incoming[2]>>
               /\ sub.finite = f.finite
               /\ sub.points = <<>>
       /\ Return =>
            LET caller == stack[Len(stack) - 1]
            IN /\ Tag(Last(caller.points)) = "Reflection"
               /\ Top(stack').points = caller.points \o ReturnedPoints
      ]_vars

\* the sub-cast of a reflection off a left face is about to hand back points
C6_Witness ==
    /\ Len(stack) = 2
    /\ EntersFromLeft(stack[1])
    /\ Tag(Last(stack[1].points)) = "Reflection"
    /\ Returning
    /\ Len(ReturnedPoints) >= 1

\* the points the step from stack to stack' added to the stepping call
Emitted(st, st2) == SubSeq(st2[Len(st)].points, Len(Top(st).points) + 1, Len(st2[Len(st)].points))

\* C7: a step across a vertical grid line records side Left when the
\* direction's x is positive and Right when it is negative, a step across a
\* horizontal grid line records Up when y is positive and Down when it is
\* negative; the recorded side changes in no other way, and every
\* Termination, Pass, Reflection or Void is emitted with the recorded side
C7_SideOfCrossing ==
    [][/\ (LoopStep \/ LoopPass) =>
            LET f == Top(stack)
                g == Top(stack')
            IN /\ (g.gx # f.gx /\ QLt(Zero, f.dist[1])) => g.side = "Left"
               /\ (g.gx # f.gx /\ QLt(f.dist[1], Zero)) => g.side = "Right"
               /\ (g.gy # f.gy /\ QLt(Zero, f.dist[2])) => g.side = "Up"
               /\ (g.gy # f.gy /\ QLt(f.dist[2], Zero)) => g.side = "Down"
               /\ g.gx # f.gx \/ g.gy # f.gy
       /\ (LoopLimit \/ LoopDestination \/ LoopVoid \/ LoopTerminate \/ LoopReflect) =>
            stack'[Len(stack)].side = Top(stack).side
       /\ (LoopVoid \/ LoopTerminate \/ LoopReflect \/ LoopPass) =>
            /\ Len(Emitted(stack, stack')) = 1
            /\ Tag(Emitted(stack, stack')[1]) \in {"Void", "Termination", "Reflection", "Pass"}
            /\ Emitted(stack, stack')[1].cast_type.side = Top(stack).side
      ]_vars

\* a diagonal ray that crossed a grid line of each kind: its Pass carries the
\* side of the first crossing and its last point the side of the second
C7_Witness ==
    /\ Returning
    /\ ~IsZero(Top(stack).dist[1]) /\ ~IsZero(Top(stack).dist[2])
    /\ Len(Top(stack).points) = 2
    /\ Tag(Top(stack).points[1]) = "Pass"
    /\ Top(stack).points[1].cast_type.side \in {"Left", "Right"}
    /\ Tag(Top(stack).points[2]) \in {"Void", "Termination"}
    /\ Top(stack).points[2].cast_type.side \in {"Up", "Down"}

Max0(n) == IF n > 0 THEN n ELSE 0

\* grid lines call f can still cross before it leaves every stored cell, plus
\* one for the iteration of a skipped first check
CrossingsLeft(m, f) ==
    Max0(IF f.x_dir = "Pos" THEN Len(m.grid) - f.gx ELSE f.gx + 1)
    + Max0(IF f.y_dir = "Pos" THEN Height(m) - f.gy ELSE f.gy + 1)
    + (IF f.do_mat_check THEN 0 ELSE 1)

\* more than any call has left when it starts next to a stored cell
CrossingsMax(m) == Len(m.grid) + Height(m) + 5

\* a natural number that counts the calls to return, the points the running
\* call may still emit and the grid lines it may still cross
Variant(m, st) ==
    IF st = <<>> THEN 0
    ELSE LET f == Top(st)
         IN (Len(st) - 1)
            + (IF f.pc = "post" THEN 1
               ELSE 2 + CrossingsLeft(m, f)
                      + Max0(f.node_limit - Len(f.points)) * CrossingsMax(m))

\* C10: ray_cast terminates: every loop iteration, recursive call and return
\* of a cast with a non-zero direction strictly decreases a natural-valued
\* variant, whatever the grid, the budget and the finite flag, mirrors facing
\* each other included
C10_Terminates ==
    [][(stack # <<>> /\ NormClass(stack[1].dist) = "pos") =>
            /\ Variant(map, stack') >= 0
            /\ Variant(map, stack') < Variant(map, stack)
      ]_vars

\* a cast between two facing mirrors ran to its end
C10_Witness ==
    /\ result # None
    /\ Len(result[1].inner) = 2
    /\ NormClass(result[1].inner[1].point) # "nan"
    /\ Tag(result[1].inner[1]) = "Reflection"
    /\ Tag(result[1].inner[2]) = "Reflection"
    /\ result[1].inner[1].cast_type.side = flip(result[1].inner[2].cast_type.side)

\* ------------------------------------------------------------------------
\* Properties of Map::get, World::update and Map::render_ray_cast
\* ------------------------------------------------------------------------

InRectangle(m, x, y) == 0 <= x /\ x < m.width /\ 0 <= y /\ y < Height(m)

\* C1 as claimed: Map::get returns None for every coordinate outside the
\* stored rectangle and the stored cell for every coordinate inside it
C1_GetNoneOutside ==
    probe # None =>
        LET x == probe[1].x
            y == probe[1].y
        IN probe[1].value = IF InRectangle(map, x, y)
                            THEN Some(map.grid[y * map.width + x + 1])
                            ELSE None

\* C1 for the coordinates that cannot alias: x < 0, y < 0 or y >= height
C1_GetNoneLeftAboveBelow ==
    probe # None =>
        LET x == probe[1].x
            y == probe[1].y
        IN (x < 0 \/ y < 0 \/ y >= Height(map)) => probe[1].value = None

\* the cast of the last move found no solid cell
NoSolidMet(cps) == \A i \in 1..Len(cps.inner) : Tag(cps.inner[i]) # "Termination"

\* C8 as claimed: when the finite cast from the player's position along dp
\* meets no solid cell, Map::move_ray_cast returns the zero vector and
\* World::update with clip on leaves the player exactly at position + dp
C8_FreeMoveIsUnclipped ==
    (/\ last_dp # None
     /\ last_dp[1].clip
     /\ NoSolidMet(MoveCast(map, last_dp[1].orig_p, last_dp[1].dp))) =>
        /\ move_ray_cast(map, last_dp[1].orig_p, last_dp[1].dp) = <<Zero, Zero>>
        /\ player_p = VAdd(last_dp[1].orig_p, last_dp[1].dp)

\* C8 for moves that start at a position that is not NaN
C8_FromPositionNotNaN ==
    (/\ last_dp # None
     /\ last_dp[1].clip
     /\ NormClass(last_dp[1].orig_p) # "nan"
     /\ NoSolidMet(MoveCast(map, last_dp[1].orig_p, last_dp[1].dp))) =>
        /\ move_ray_cast(map, last_dp[1].orig_p, last_dp[1].dp) = <<Zero, Zero>>
        /\ player_p = VAdd(last_dp[1].orig_p, last_dp[1].dp)

SolidOpaque(m, mat) == Props(m, mat).solid /\ ~Props(m, mat).transparent

\* every border cell is of a solid opaque material
BorderSolidOpaque(m) ==
    \A x \in 0..(RenderSize - 1), y \in 0..(RenderSize - 1) :
        (x \in {0, RenderSize - 1} \/ y \in {0, RenderSize - 1}) =>
            SolidOpaque(m, m.grid[y * m.width + x + 1])

\* the interior of row y is air
RowIsAir(m, y) == \A x \in Interior : IsAir(m.grid[y * m.width + x + 1])

\* the sample scenario: the camera at the centre of cell (6, 6) facing +x
SampleScenario ==
    /\ map.width = RenderSize /\ Len(map.grid) = RenderSize * RenderSize
    /\ BorderSolidOpaque(map)
    /\ RowIsAir(map, 6)
    /\ player_p = <<Q(13, 2), Q(13, 2)>>
    /\ unit_from_angle(player_angle) = <<I(1), I(0)>>

\* C9: in the sample scenario the render cast for the centre screen column
\* is one Termination, with side Left, on the west face x = 15 of the east
\* border, and the line rendered for it is at distance 8.5
C9_CentreColumnEndsOnEastWall ==
    SampleScenario =>
        LET ray == ColumnRay(player_angle, tan_half_fov, HALF_WIDTH)
            cast == RenderCast(map, player_p, ray)
            drawn == render_ray_cast(map, player_p, ray)
        IN /\ Len(cast.inner) = 1
           /\ Tag(cast.inner[1]) = "Termination"
           /\ cast.inner[1].cast_type.side = "Left"
           /\ cast.inner[1].point = <<I(RenderSize - 1), Q(13, 2)>>
           /\ Len(drawn) = 1
           /\ drawn[1].dist = Length(Q(17, 2))
           /\ drawn[1].mat = map.grid[6 * map.width + RenderSize]
           /\ (lines # None /\ lines[1].x = HALF_WIDTH) =>
                 /\ Len(lines[1].lines) = 1
                 /\ lines[1].lines[1].dist = Length(Q(17, 2))

\* the centre column of the sample scenario has been rendered
C9_Witness ==
    /\ SampleScenario
    /\ lines # None
    /\ lines[1].x = HALF_WIDTH
    /\ Len(lines[1].lines) = 1
    /\ lines[1].lines[1].dist = <<Q(289, 4)>>
    /\ lines[1].lines[1].dark

\* ------------------------------------------------------------------------
\* The pixel-index mapping and the Frame
\* ------------------------------------------------------------------------

\* the coordinate lies in the frame
InFrame(x, y) == x < WIDTH /\ y < HEIGHT

\* C11: the pixel-index mapping round-trips: once both the coordinates and
\* the index of a pixel are known, one computed from the other, coordinates
\* (x, y) with x < WIDTH and y < HEIGHT are what index_to_coords makes of
\* their index, and an index below WIDTH * HEIGHT is what coords_to_index
\* makes of its coordinates
C11_RoundTrip ==
    (coords # None /\ index # None) =>
        /\ InFrame(coords[1][1], coords[1][2]) =>
               index_to_coords(coords_to_index(coords[1][1], coords[1][2])) = coords[1]
        /\ InFrame(coords[1][1], coords[1][2]) => index_to_coords(index[1]) = coords[1]
        /\ index[1] < WIDTH * HEIGHT =>
               LET c == index_to_coords(index[1]) IN coords_to_index(c[1], c[2]) = index[1]
        /\ index[1] < WIDTH * HEIGHT =>
               coords_to_index(coords[1][1], coords[1][2]) = index[1]

\* the last pixel of the frame has been converted
C11_Witness ==
    /\ coords = Some(<<WIDTH - 1, HEIGHT - 1>>)
    /\ index = Some(WIDTH * HEIGHT - 1)

\* two buffers hold the same bytes
SameBuffer(a, b) ==
    /\ a.len = b.len
    /\ a.fill = b.fill
    /\ \A i \in (DOMAIN a.set) \cup (DOMAIN b.set) : Pixel(a, i) = Pixel(b, i)

\* C12: a draw_rgb or draw_rgba call with a coordinate outside of the frame
\* (x >= WIDTH or y >= HEIGHT) leaves every pixel of the buffer as it was and
\* does not fail
C12_OutOfFrameIgnored ==
    (last_draw # None /\ ~InFrame(last_draw[1].x, last_draw[1].y)) =>
        /\ SameBuffer(buffer[1], last_draw[1].before)
        /\ ~last_draw[1].failed

\* a draw call with y >= HEIGHT and x < WIDTH leaves every pixel as it was
C12_BelowFrameIgnored ==
    (last_draw # None /\ last_draw[1].y >= HEIGHT /\ last_draw[1].x < WIDTH) =>
        /\ SameBuffer(buffer[1], last_draw[1].before)
        /\ ~last_draw[1].failed

\* the colour bytes of the pixel (x, y)
ColourAt(buf, x, y) ==
    LET bytes == Pixel(buf, coords_to_index(x, y)) IN Colour(bytes[1], bytes[2], bytes[3])

\* floor(src * alpha / 255) + floor(dst * (255 - alpha) / 255)
Mix(src, dst, alpha) == ((src * alpha) \div 255) + ((dst * (255 - alpha)) \div 255)

\* C13: after draw_rgba on a pixel of the frame, with alpha 0 the pixel is as
\* it was; with alpha 255 its colour is the source colour; with an alpha in
\* between each channel is floor(src * alpha / 255) + floor(dst * (255 -
\* alpha) / 255) of the colour it had, which lies in 0..255, and the call
\* does not fail
C13_DrawRgbaBlends ==
    (/\ last_draw # None
     /\ last_draw[1].op = "draw_rgba"
     /\ InFrame(last_draw[1].x, last_draw[1].y)) =>
        LET d == last_draw[1]
            src == d.p
            dst == ColourAt(d.before, d.x, d.y)
            now == ColourAt(buffer[1], d.x, d.y)
        IN /\ ~d.failed
           /\ src.a = 0 => SameBuffer(buffer[1], d.before)
           /\ src.a = 255 => now = Rgb(src)
           /\ (0 < src.a /\ src.a < 255) =>
                  /\ now = Colour(Mix(src.r, dst.r, src.a), Mix(src.g, dst.g, src.a),
                                  Mix(src.b, dst.b, src.a))
                  /\ \A c \in {now.r, now.g, now.b} : c \in 0..255
                  /\ \A c \in {Mix(src.r, dst.r, src.a), Mix(src.g, dst.g, src.a),
                               Mix(src.b, dst.b, src.a)} : c \in 0..255

\* a half-transparent colour has been drawn over a pixel that an earlier call
\* had drawn, and both show in the result
C13_Witness ==
    /\ last_draw # None
    /\ last_draw[1].op = "draw_rgba"
    /\ last_draw[1].n = 2
    /\ InFrame(last_draw[1].x, last_draw[1].y)
    /\ last_draw[1].p = TColour(255, 0, 128, 128)
    /\ ColourAt(last_draw[1].before, last_draw[1].x, last_draw[1].y) = Colour(1, 254, 127)
    /\ ColourAt(buffer[1], last_draw[1].x, last_draw[1].y) = Colour(128, 126, 127)

\* ------------------------------------------------------------------------
\* Corners, clip vectors and the end of a cast
\* ------------------------------------------------------------------------

\* the times of lines 76-79 to the next vertical and horizontal grid line
Times(f) ==
    LET nearest_corner == <<I(on(f.x_dir, f.gx)), I(on(f.y_dir, f.gy))>>
        distance == VSub(nearest_corner, f.cur)
    IN <<QDiv(distance[1], f.dist[1]), QDiv(distance[2], f.dist[2])>>

\* the ray is about to reach an exact grid corner
Tie(f) ==
    /\ IsFinite(Times(f)[1]) /\ IsFinite(Times(f)[2])
    /\ ~QLt(Times(f)[1], Times(f)[2]) /\ ~QLt(Times(f)[2], Times(f)[1])

\* C14: when the times to the next vertical and the next horizontal grid
\* line are equal, the step records an x-axis side (Left or Right), in
\* rendering and in movement casts
C14_TieTakesXSide ==
    [][((LoopStep \/ LoopPass) /\ Tie(Top(stack))) =>
           Top(stack').side \in {"Left", "Right"}]_vars

\* when the two times are equal the step crosses the horizontal grid line:
\* it records Up or Down and moves on to the next row
C14_TieTakesYSide ==
    [][((LoopStep \/ LoopPass) /\ Tie(Top(stack))) =>
           /\ Top(stack').side \in {"Up", "Down"}
           /\ Top(stack').gy # Top(stack).gy
           /\ Top(stack').gx = Top(stack).gx]_vars

\* the index of the first point of the list with one of the tags, or 0
FirstOf(inner, tags) ==
    IF \E i \in 1..Len(inner) : Tag(inner[i]) \in tags
    THEN CHOOSE i \in 1..Len(inner) :
             /\ Tag(inner[i]) \in tags
             /\ \A j \in 1..(i - 1) : Tag(inner[j]) \notin tags
    ELSE 0

BlockingTags == {"Termination", "Pass", "Reflection"}

\* C15: for a finite cast that recorded a Termination, Pass, Reflection or
\* Void, clip returns the destination minus the point of the first of them;
\* when the ray left the grid that is the Void point
C15_ClipFromFirstBlockingOrVoid ==
    (result # None /\ result[1].target # None) =>
        LET inner == result[1].inner
            i == FirstOf(inner, BlockingTags \cup {"Void"})
        IN i > 0 => clip_of(result[1]).clip = VSub(result[1].target[1], inner[i].point)

\* for a finite cast, clip returns the destination minus the point of the
\* first Termination, Pass or Reflection, and without any of them the
\* destination minus the last point of the list, with no side
C15_ClipFromFirstBlockingOrLast ==
    (result # None /\ result[1].target # None) =>
        LET inner == result[1].inner
            i == FirstOf(inner, BlockingTags)
            c == clip_of(result[1])
        IN /\ i > 0 =>
                /\ c.clip = VSub(result[1].target[1], inner[i].point)
                /\ c.side = Some(inner[i].cast_type.side)
           /\ (i = 0 /\ inner # <<>>) =>
                /\ c.clip = VSub(result[1].target[1], Last(inner).point)
                /\ (Tag(Last(inner)) = "Destination") => c.side = None

\* ------------------------------------------------------------------------
\* The order of the things of a segment
\* ------------------------------------------------------------------------

\* the things that are considered: all of World::things, and the player's
\* when it is included
Considered(with_player) ==
    {things[i] : i \in 1..Len(things)} \cup
        (IF with_player THEN {PlayerThing(player_p)} ELSE {})

\* C16 as claimed: the things drawn for a segment are the things considered,
\* in order of increasing distance from the segment's start
C16_NearestFirst ==
    sprites # None =>
        LET s == sprites[1]
        IN /\ {s.order[i] : i \in 1..Len(s.order)} = Considered(s.with_player)
           /\ \A i, j \in 1..Len(s.order) :
                  i < j => ~QLt(NormSq(s.order[j], s.p), NormSq(s.order[i], s.p))

\* C16: the things drawn for a segment are the things considered, each
\* once, in order of decreasing distance from the segment's start: the
\* farthest is drawn first and the nearest last
C16_FarthestFirst ==
    sprites # None =>
        LET s == sprites[1]
        IN /\ {s.order[i] : i \in 1..Len(s.order)} = Considered(s.with_player)
           /\ Len(s.order) = Cardinality(Considered(s.with_player))
           /\ \A i, j \in 1..Len(s.order) :
                  i < j => ~QLt(NormSq(s.order[i], s.p), NormSq(s.order[j], s.p))

\* three things and the player's were drawn, at three different distances
C16_Witness ==
    /\ sprites # None
    /\ sprites[1].with_player
    /\ Len(sprites[1].order) = 4
    /\ Cardinality({NormSq(sprites[1].order[i], sprites[1].p) : i \in 1..4}) >= 3
    /\ QLt(NormSq(sprites[1].order[4], sprites[1].p), NormSq(sprites[1].order[1], sprites[1].p))
    /\ sprites[1].order[1] # PlayerThing(player_p)
    /\ sprites[1].order[4] # PlayerThing(player_p)

\* ------------------------------------------------------------------------
\* The player's start in a map file
\* ------------------------------------------------------------------------

\* the positions <<row, column>> of the player-start tokens of the file
TokensOf(lines_) ==
    {rc \in (1..Len(lines_)) \X (1..MaxCols + 1) :
        rc[2] <= Len(lines_[rc[1]]) /\ lines_[rc[1]][rc[2]] \in PlayerTokens}

\* C17: a map is loaded only if its grid holds exactly one player-start
\* token: a grid without any and a grid with more than one are rejected
C17_ExactlyOnePlayer ==
    (loaded # None /\ loaded[1].ok) => Cardinality(TokensOf(file)) = 1

\* a grid without a player-start token is rejected with "no player on map"
\* unless another panic came first, and a grid that is loaded starts the
\* player at the last of its tokens
C17_LastPlayerWins ==
    loaded # None =>
        /\ Cardinality(TokensOf(file)) = 0 => ~loaded[1].ok
        /\ loaded[1].ok =>
              \E rc \in TokensOf(file) :
                  /\ \A other \in TokensOf(file) :
                         other[1] < rc[1] \/ (other[1] = rc[1] /\ other[2] <= rc[2])
                  /\ loaded[1].s = TokenSide(file[rc[1]][rc[2]])

\* ------------------------------------------------------------------------
\* The end of a finite cast that left the grid
\* ------------------------------------------------------------------------

HasVoid(pts) == \E i \in 1..Len(pts) : Tag(pts[i]) = "Void"

\* C18 as claimed: the list a finite cast returns never ends with a Void,
\* and when the ray left the grid or reached a negative coordinate it ends
\* with the Void followed by a Destination at the cast's destination
C18_VoidThenOwnDestination ==
    (result # None /\ result[1].target # None) =>
        LET inner == result[1].inner
            n == Len(inner)
        IN /\ n > 0 => Tag(inner[n]) # "Void"
           /\ HasVoid(inner) =>
                /\ n >= 2
                /\ Tag(inner[n - 1]) = "Void"
                /\ Tag(inner[n]) = "Destination"
                /\ inner[n].point = result[1].target[1]

\* C18: the list any finite call of ray_cast returns, a continuation cast
\* included, never ends with a Void, and when the call met the end of the
\* grid or a negative coordinate it ends with the Void followed by a
\* Destination at the destination of that call; the list of a cast that was
\* reflected before it left the grid so ends with the destination of its
\* last continuation cast
C18_VoidThenDestinationOfCall ==
    /\ (Returning /\ Top(stack).finite) =>
          LET f == Top(stack)
              inner == ReturnedPoints
              n == Len(inner)
          IN /\ n > 0 => Tag(inner[n]) # "Void"
             /\ HasVoid(inner) =>
                  /\ n >= 2
                  /\ Tag(inner[n - 1]) = "Void"
                  /\ Tag(inner[n]) = "Destination"
                  /\ \A i \in 1..(n - 2) : Tag(inner[i]) # "Void"
             /\ (HasVoid(inner) /\ ~\E i \in 1..n : Tag(inner[i]) = "Reflection") =>
                  inner[n].point = f.dest
    /\ (result # None /\ result[1].target # None) =>
          LET inner == result[1].inner
              n == Len(inner)
          IN /\ n > 0 => Tag(inner[n]) # "Void"
             /\ HasVoid(inner) =>
                  /\ n >= 2
                  /\ Tag(inner[n - 1]) = "Void"
                  /\ Tag(inner[n]) = "Destination"
             /\ (HasVoid(inner) /\ ~\E i \in 1..n : Tag(inner[i]) = "Reflection") =>
                  inner[n].point = result[1].target[1]

\* a movement cast left the grid through its upper edge, short of its
\* destination
C18_Witness ==
    /\ result # None /\ result[1].target # None
    /\ Len(result[1].inner) = 2
    /\ Tag(result[1].inner[1]) = "Void"
    /\ result[1].inner[1].point = <<Half(3), Zero>>
    /\ Tag(result[1].inner[2]) = "Destination"
    /\ result[1].inner[2].point = <<Half(3), Half(-1)>>

\* ------------------------------------------------------------------------
\* The first cell of a continuation cast and of a cast from a grid line
\* ------------------------------------------------------------------------

\* the cell tested by a call in its current iteration
CellOf(f) == <<f.gx, f.gy>>

\* the cell a ray was in before the step that recorded the side f.side
ArrivedFrom(f) ==
    CASE f.side = "Left" -> <<f.gx - 1, f.gy>>
      [] f.side = "Right" -> <<f.gx + 1, f.gy>>
      [] f.side = "Up" -> <<f.gx, f.gy - 1>>
      [] f.side = "Down" -> <<f.gx, f.gy + 1>>

\* the call has taken a step since it started
HasStepped(f) == f.cur # f.from

\* the position is finite and lies on a grid line of one axis only
OnOneGridLine(f) ==
    /\ IsFinite(f.cur[1]) /\ IsFinite(f.cur[2])
    /\ FractIsZero(f.cur[1]) # FractIsZero(f.cur[2])

\* C19: the continuation cast started by a Reflection, when it has budget
\* to test a cell at all, first tests a cell other than the reflecting one,
\* and after a step onto a face that cell is the one the ray arrived from
C19_ContinuationLeavesCell ==
    [][LoopReflect =>
          LET f == Top(stack)
              g == Top(stack')
          IN g.node_limit > 0 =>
                /\ CellOf(g) # CellOf(f)
                /\ HasStepped(f) => CellOf(g) = ArrivedFrom(f)]_vars

\* a Reflection recorded after a step onto a face, away from the corners,
\* starts its continuation in the cell the ray arrived from
C19_FaceReflectionTurnsBack ==
    [][LoopReflect =>
          LET f == Top(stack)
              g == Top(stack')
          IN (HasStepped(f) /\ OnOneGridLine(f)) =>
                /\ CellOf(g) = ArrivedFrom(f)
                /\ CellOf(g) # CellOf(f)]_vars

\* the call has not left its first iteration: it is where it started and
\* has recorded nothing
Fresh(f) ==
    /\ f.pc = "loop" /\ f.points = <<>> /\ f.cur = f.from
    /\ IsFinite(f.from[1]) /\ IsFinite(f.from[2])
    /\ f.gx \in {FloorI32(f.from[1]), FloorI32(f.from[1]) - 1}
    /\ f.gy \in {FloorI32(f.from[2]), FloorI32(f.from[2]) - 1}

\* the material reads as a terminator of the cast at the cell
Stops(f, x, y) ==
    /\ Get(map, x, y) # None
    /\ IsNode(f.preds, map, Get(map, x, y)[1])
    /\ IsTerminator(f.preds, map, Get(map, x, y)[1])

HasTag(pts, tag) == \E i \in 1..Len(pts) : Tag(pts[i]) = tag

\* C25: a cast that is not finite holds no Destination point: neither the
\* points of any running call, a continuation cast at any depth included,
\* nor the list a call returns, nor the result of the outermost call
C25_InfiniteHasNoDestination ==
    /\ \A d \in 1..Len(stack) :
          ~stack[d].finite =>
              /\ ~HasTag(stack[d].points, "Destination")
              /\ stack[d].pc = "post" => ~HasTag(CastPointsOf(stack[d]).inner, "Destination")
    /\ \A d \in 2..Len(stack) : stack[d].finite = stack[1].finite
    /\ (result # None /\ result[1].target = None) => ~HasTag(result[1].inner, "Destination")

\* a rendering cast was reflected and its continuation left the grid: the
\* list ends with the Void
C25_Witness ==
    /\ result # None /\ result[1].target = None
    /\ Len(result[1].inner) = 2
    /\ Tag(result[1].inner[1]) = "Reflection"
    /\ Tag(result[1].inner[2]) = "Void"

\* the tags of a list of points
TagsOf(pts) == [i \in 1..Len(pts) |-> Tag(pts[i])]

MoveShapes == {<<"Termination">>, <<"Destination">>, <<"Void", "Destination">>}

\* C24: a cast with the predicates of Map::move_ray_cast (finite, node if
\* solid, terminator if solid, never a reflector) runs in one call only,
\* records no Pass and no Reflection and at most one point in its loop, and
\* with any budget of at least one returns [Termination], [Destination] or
\* [Void, Destination]: at most two points, so that the budget of 8 is never
\* spent, whatever the transparent and reflective properties of the cells
C24_MoveCastShape ==
    \A d \in 1..Len(stack) :
        (stack[d].preds = "move" /\ stack[d].finite) =>
            /\ Len(stack) = 1
            /\ ~HasTag(stack[d].points, "Pass")
            /\ ~HasTag(stack[d].points, "Reflection")
            /\ Len(stack[d].points) <= 1
            /\ (stack[d].pc = "post" /\ stack[d].node_limit >= 1) =>
                  /\ TagsOf(CastPointsOf(stack[d]).inner) \in MoveShapes
                  /\ Len(CastPointsOf(stack[d]).inner) < NodeBudget

\* a movement cast was stopped by a mirror, which is solid, transparent and
\* reflective
C24_Witness ==
    /\ Returning
    /\ Top(stack).preds = "move"
    /\ Top(stack).node_limit = 2
    /\ TagsOf(ReturnedPoints) = <<"Termination">>
    /\ ReturnedPoints[1].cast_type.mat = 3
    /\ Top(stack).cur # Top(stack).from

\* (p - dest).dot(dist) / dist.norm() is negative; for the zero direction the
\* quotient is 0/0 = NaN, which is not negative
BeforeDestination(f, p) ==
    /\ NormClass(f.dist) = "pos"
    /\ QLt(Dot(VSub(p, f.dest), f.dist), Zero)

TestedTags == {"Termination", "Pass", "Void"}

\* the points call f recorded for the cells it tested
TestedBeforeDestination(f) ==
    \A i \in 1..Len(f.points) :
        Tag(f.points[i]) \in TestedTags => BeforeDestination(f, f.points[i].point)

\* C22 as claimed: in a finite cast without reflection every Termination,
\* Pass and Void point lies strictly before the destination along the ray:
\* its signed progress past the destination is negative
C22_PointsBeforeDestination ==
    (/\ Len(stack) = 1
     /\ stack[1].finite
     /\ ~HasTag(stack[1].points, "Reflection")) =>
        TestedBeforeDestination(stack[1])

\* C22 for directions that are not the zero vector
C22_NonZeroDirection ==
    (/\ Len(stack) = 1
     /\ stack[1].finite
     /\ NormClass(stack[1].dist) = "pos"
     /\ ~HasTag(stack[1].points, "Reflection")) =>
        TestedBeforeDestination(stack[1])

\* a finite cast in a direction that is not zero passed glass and was
\* stopped by a wall before its destination
C22_NonZeroReached ==
    /\ Returning /\ Len(stack) = 1
    /\ stack[1].finite
    /\ NormClass(stack[1].dist) = "pos"
    /\ TagsOf(stack[1].points) = <<"Pass", "Termination">>

\* a == b as f32 values: neither is NaN and the two zeros are equal
QSame(a, b) == QGe(a, b) /\ QGe(b, a)

\* the first point of the cast of the last move is a Termination
FirstIsHit(u) ==
    LET inner == MoveCast(map, u.orig_p, u.dp).inner
    IN Len(inner) > 0 /\ Tag(inner[1]) = "Termination"

\* the player stands PUSH outside the face of side s hit at point P on the
\* axis normal to the face, and at the unclipped destination orig_p + dp on
\* the axis along it
PushedBackFrom(u, pos) ==
    LET hit == MoveCast(map, u.orig_p, u.dp).inner[1]
        out == into_unit_vector(hit.cast_type.side)
        normal == IF IsZero(out[1]) THEN 2 ELSE 1
        tangent == 3 - normal
    IN /\ QSame(pos[normal], QAdd(hit.point[normal], QMul(PUSH, out[normal])))
       /\ QSame(pos[tangent], VAdd(u.orig_p, u.dp)[tangent])

\* C21 as claimed: when the first point of the move cast is a hit on a solid
\* cell at P with side s, World::update with clip on leaves the player at
\* P moved 0.005 back out of the wall on the axis normal to the face, and at
\* the unclipped destination's coordinate on the axis tangent to it
C21_StopsPushBeforeWall ==
    (/\ last_dp # None
     /\ last_dp[1].clip
     /\ FirstIsHit(last_dp[1])) =>
        PushedBackFrom(last_dp[1], player_p)

\* C21 for moves with a dp that is not zero from a position that is not NaN
C21_NonZeroMove ==
    (/\ last_dp # None
     /\ last_dp[1].clip
     /\ NormClass(last_dp[1].orig_p) = "pos"
     /\ NormClass(last_dp[1].dp) = "pos"
     /\ FirstIsHit(last_dp[1])) =>
        PushedBackFrom(last_dp[1], player_p)

\* the face hit is turned towards the ray: dp points into it
C21_FaceTowardsRay ==
    (/\ last_dp # None
     /\ last_dp[1].clip
     /\ NormClass(last_dp[1].orig_p) = "pos"
     /\ NormClass(last_dp[1].dp) = "pos"
     /\ FirstIsHit(last_dp[1])) =>
        QLt(Dot(into_unit_vector(MoveCast(map, last_dp[1].orig_p, last_dp[1].dp).inner[1].cast_type.side),
                last_dp[1].dp), Zero)

\* a move that is not zero was stopped by a wall met diagonally
C21_NonZeroReached ==
    /\ last_dp # None
    /\ last_dp[1].clip
    /\ NormClass(last_dp[1].orig_p) = "pos"
    /\ ~IsZero(last_dp[1].dp[1]) /\ ~IsZero(last_dp[1].dp[2])
    /\ FirstIsHit(last_dp[1])
    /\ player_p # VAdd(last_dp[1].orig_p, last_dp[1].dp)

\* ------------------------------------------------------------------------
\* Walking into a corner
\* ------------------------------------------------------------------------

\* the maps with two walls and no other material
CornerMaps ==
    {[grid |-> g, width |-> GridShape.width, properties |-> Materials] :
        g \in {h \in [Cells -> {0, 1}] : Cardinality({i \in Cells : h[i] = 1}) = 2}}

\* World::new in a map with two walls
InitCorner ==
    /\ map \in CornerMaps
    /\ NoCast /\ NoProbe /\ NoSink
    /\ Get(map, WorldStart[1], WorldStart[2]) = Some(Air)
    /\ player_p = <<QAdd(I(WorldStart[1]), Half(1)), QAdd(I(WorldStart[2]), Half(1))>>
    /\ \E s \in StartSides : player_angle = direction_angle(s)
    /\ clip = TRUE
    /\ ticks = 0
    /\ last_dp = None
    /\ tan_half_fov = I(1)
    /\ lines = None

SpecCorner == InitCorner /\ [][NextWorld]_vars

\* the cell of position p holds a solid material
InSolid(m, p) ==
    LET c == Get(m, FloorI32(p[1]), FloorI32(p[2]))
    IN c # None /\ ~IsAir(c[1]) /\ Props(m, c[1]).solid

\* the position is not on a grid line
OffGridLines(p) ==
    /\ IsFinite(p[1]) /\ IsFinite(p[2])
    /\ ~FractIsZero(p[1]) /\ ~FractIsZero(p[2])

\* the update moved the player with clip on, by a dp that is not zero, from
\* a position in a cell that is not solid
ClippedMove ==
    /\ clip
    /\ ticks' = ticks + 1
    /\ last_dp' # None /\ last_dp' # last_dp
    /\ NormClass(last_dp'[1].dp) = "pos"
    /\ NormClass(player_p) = "pos"
    /\ ~InSolid(map, player_p)

\* C23 as claimed: a World::update with clip on that starts with the player
\* in a cell that is not solid never leaves the player inside a solid cell,
\* also when the move goes diagonally into a corner of two solid cells
C23_NeverInsideSolid ==
    [][ClippedMove => ~InSolid(map, player_p')]_vars

\* C23 for moves along one axis: a clipped move that starts inside the
\* rectangle of the map, runs along one axis and does not end on a grid
\* line never leaves the player in a solid cell
C23_StraightMovesStayOutside ==
    [][(/\ ClippedMove
        /\ InsideMap(map, player_p)
        /\ OffGridLines(player_p')
        /\ IsZero(last_dp'[1].dp[1]) \/ IsZero(last_dp'[1].dp[2])) =>
            ~InSolid(map, player_p')]_vars

\* a clipped move ended off the grid lines inside a solid cell
C23_DeepInsideSolid ==
    /\ last_dp # None /\ last_dp[1].clip
    /\ ~InSolid(map, last_dp[1].orig_p)
    /\ NormClass(last_dp[1].dp) = "pos"
    /\ OffGridLines(player_p)
    /\ InSolid(map, player_p)

====
